---- MODULE Spec2Model ----
(***************************************************************************)
(* Paperwork's job scheduler (src/paperwork/frontend/jobs.py): one worker  *)
(* thread per JobScheduler, a heapq of pending (-priority, idx, job)       *)
(* tuples and the active job, all guarded by one threading.Condition.      *)
(*                                                                         *)
(* Granularity: a step is one critical section of _job_queue_cond (from    *)
(* acquire() to the release() or to the wait() that gives the lock up), or *)
(* one access to a field that is read or written without the lock          *)
(* (self.running at lines 132, 144, 194 and 279), or the body of do().     *)
(* What stop() does inside a job is the job class's business: the model    *)
(* records the call, and a do() may return or raise at any time.           *)
(* Nothing blocks while the lock is held, so the lock itself needs no      *)
(* variable: a thread is either outside every critical section or parked   *)
(* in wait().                                                              *)
(*                                                                         *)
(* PriorityQueue (src/paperwork/frontend/util/__init__.py) is a separate   *)
(* heapq-backed container; its methods are the actions of PQSpec.          *)
(***************************************************************************)
EXTENDS Integers, Sequences, FiniteSets, TLC

None == "None"

\* The jobs the collaborators build, each handed to schedule() at most once.
Jobs == {"J1", "J2", "J3"}
Factories == {"F1", "F2"}
\* Threads other than the worker: the Gtk main loop and one more caller.
Producers == {"p1", "p2"}

\* How many times start() may create a worker thread.
MaxStarts == 2
Threads == 1 .. MaxStarts

\* What is put into a PriorityQueue, with which priorities, and how many
\* times add() is called.
PQElements == {"a", "b"}
PQPriorities == 0 .. 2
MaxAdds == 4

\* time.time() in ticks of 0.1 s, from 0 to MaxTime.
MaxTime == 8
\* Job.MAX_TIME_FOR_UNSTOPPABLE_JOB = 0.5 (seconds), in ticks.
MAX_TIME_FOR_UNSTOPPABLE_JOB == 5

\* The job classes of a run: Job.priority, Job.can_stop and Job.factory of
\* each job.  Ranked has three priorities and two factories; Level has one
\* priority and one factory.
Ranked ==
    [j \in Jobs |->
        [priority |-> CASE j = "J1" -> 0 [] j = "J2" -> 1 [] OTHER -> 2,
         can_stop |-> j \in {"J1", "J3"},
         factory |-> IF j = "J3" THEN "F2" ELSE "F1"]]
Level ==
    [j \in Jobs |->
        [priority |-> 0, can_stop |-> j \in {"J1", "J3"}, factory |-> "F1"]]
JobTables == {Ranked, Level}

VARIABLES
    jobs,        \* the attributes of the Job objects (fixed during a run)
    running,     \* JobScheduler.running
    thread,      \* JobScheduler._thread: 0 is None, else the thread's number
    nstarted,    \* threads created so far
    wpc,         \* where each worker thread stands in _run
    wjob,        \* the job whose do() each worker thread is executing
    queue,       \* JobScheduler._job_queue: a list kept with heapq
    active_job,  \* JobScheduler._active_job
    job_idx,     \* next value of JobScheduler._job_idx_generator
    ppc,         \* where each producer stands in its call
    pact,        \* the local active_job of a producer inside _stop_active_job
    submitted,   \* jobs already handed to schedule()
    stopCalls,   \* <<job, will_resume>> of the stop() calls a job received
                 \* since its do() was last entered
    taken,       \* history: <<tuple popped, job_idx at that time>> of the
                 \* active job
    doCount,     \* history: how many times each job's do() was invoked
    elements,    \* PriorityQueue.elements: a list kept with heapq
    last_idx,    \* PriorityQueue.__last_idx
    timed,       \* the timing of one do() in _run: the job's can_stop, the
                 \* locals start and stop, and what was logged about it
    waiter       \* one Job inside do(), using _wait: Job._wait_time (is_set
                 \* FALSE is None), the local start, the clock, where the
                 \* job's thread stands, and history: the duration first
                 \* asked for and the time spent in wait() so far

vars == <<jobs, running, thread, nstarted, wpc, wjob, queue, active_job, job_idx,
          ppc, pact, submitted, stopCalls, taken, doCount, elements, last_idx,
          timed, waiter>>

\* What no step of the scheduler's protocol touches.
objs == <<jobs, elements, last_idx, timed, waiter>>
sched == <<objs, running, thread, nstarted>>
\* The scheduler's protocol state and its jobs.
scheduler_state == <<jobs, running, thread, nstarted, wpc, wjob, queue,
                     active_job, job_idx, ppc, pact, submitted, stopCalls,
                     taken, doCount>>
\* The scheduler and its jobs, which no method of PriorityQueue touches.
scheduler == <<jobs, running, thread, nstarted, wpc, wjob, queue, active_job,
               job_idx, ppc, pact, submitted, stopCalls, taken, doCount, timed,
               waiter>>

priority(j) == jobs[j].priority
can_stop(j) == jobs[j].can_stop
factory(j) == jobs[j].factory
hist == <<taken, doCount>>

-----------------------------------------------------------------------------
(* heapq on a list of tuples.  Positions are Python's (from 0).            *)

\* Tuple comparison: idx is unique, so the job itself is never compared.
cmp_lt(x, y) == x[1] < y[1] \/ (x[1] = y[1] /\ x[2] < y[2])

RECURSIVE siftdown(_, _, _, _)
siftdown(heap, startpos, pos, newitem) ==
    IF pos > startpos
    THEN LET parentpos == (pos - 1) \div 2
             parent == heap[parentpos + 1]
         IN IF cmp_lt(newitem, parent)
            THEN siftdown([heap EXCEPT ![pos + 1] = parent], startpos,
                          parentpos, newitem)
            ELSE [heap EXCEPT ![pos + 1] = newitem]
    ELSE [heap EXCEPT ![pos + 1] = newitem]

RECURSIVE siftup(_, _, _, _)
siftup(heap, pos, childpos, newitem) ==
    IF childpos < Len(heap)
    THEN LET rightpos == childpos + 1
             c == IF rightpos < Len(heap)
                     /\ ~cmp_lt(heap[childpos + 1], heap[rightpos + 1])
                  THEN rightpos ELSE childpos
         IN siftup([heap EXCEPT ![pos + 1] = heap[c + 1]], c, 2 * c + 1, newitem)
    ELSE siftdown([heap EXCEPT ![pos + 1] = newitem], 0, pos, newitem)

\* heapq._siftup(heap, pos) for any pos: the smaller child is moved up until
\* a leaf is hit, then newitem is sifted down again, not above startpos.
RECURSIVE siftup_from(_, _, _, _, _)
siftup_from(heap, startpos, pos, childpos, newitem) ==
    IF childpos < Len(heap)
    THEN LET rightpos == childpos + 1
             c == IF rightpos < Len(heap)
                     /\ ~cmp_lt(heap[childpos + 1], heap[rightpos + 1])
                  THEN rightpos ELSE childpos
         IN siftup_from([heap EXCEPT ![pos + 1] = heap[c + 1]], startpos, c,
                        2 * c + 1, newitem)
    ELSE siftdown([heap EXCEPT ![pos + 1] = newitem], startpos, pos, newitem)

\* heapq.heapify: for i in reversed(range(n // 2)): _siftup(x, i).
RECURSIVE heapify_from(_, _)
heapify_from(x, i) ==
    IF i < 0 THEN x
    ELSE heapify_from(siftup_from(x, i, i, 2 * i + 1, x[i + 1]), i - 1)

\* A list left as it is.
heapify_skipped(x) == x

heapify(x) == heapify_from(x, (Len(x) \div 2) - 1)

\* A push that leaves the new tuple last, without sifting it.
heappush_nosift(heap, item) == Append(heap, item)

heappush(heap, item) == siftdown(Append(heap, item), 0, Len(heap), item)

\* heappop: the item returned and the list left.
heappop_item(heap) == heap[1]
heappop_rest(heap) ==
    LET lastelt == heap[Len(heap)]
        rest == SubSeq(heap, 1, Len(heap) - 1)
    IN IF rest = <<>> THEN rest ELSE siftup(rest, 0, 1, lastelt)

\* list.remove(x) for the x found at position i (from 1).
list_remove(q, i) == SubSeq(q, 1, i - 1) \o SubSeq(q, i + 1, Len(q))

-----------------------------------------------------------------------------
Init ==
    /\ jobs \in JobTables
    /\ running = FALSE
    /\ thread = 0
    /\ nstarted = 0
    /\ wpc = [t \in Threads |-> "none"]
    /\ wjob = [t \in Threads |-> None]
    /\ queue = <<>>
    /\ active_job = None
    /\ job_idx = 0
    /\ ppc = [p \in Producers |-> "idle"]
    /\ pact = [p \in Producers |-> None]
    /\ submitted = {}
    /\ stopCalls = {}
    /\ taken = <<>>
    /\ doCount = [j \in Jobs |-> 0]
    /\ elements = <<>>
    /\ last_idx = 0
    /\ timed = [can_stop |-> FALSE, start |-> 0, stop |-> 0, logged |-> "none"]
    /\ waiter = [is_set |-> FALSE, wait_time |-> 0, start |-> 0, now |-> 0,
                 pc |-> "idle", asked |-> 0, waited |-> 0]

\* A notify_all() that wakes no producer.
unnotified_p(pp) == pp

\* Condition.notify_all(): every thread parked in wait() is woken; it still
\* has to take the lock back before it goes on.
notified_w(w) == [t \in Threads |-> IF w[t] = "waiting" THEN "woken" ELSE w[t]]
notified_p(pp) ==
    [p \in Producers |-> CASE pp[p] = "s_wait" -> "s_woken"
                           [] pp[p] = "c_wait" -> "c_woken"
                           [] OTHER -> pp[p]]

-----------------------------------------------------------------------------
(* JobScheduler._run, executed by worker thread t.                         *)

\* Line 140: (_, _, self._active_job) = heapq.heappop(self._job_queue),
\* followed by the release of the lock.
run_pop(t) ==
    /\ active_job' = heappop_item(queue)[3]
    /\ queue' = heappop_rest(queue)
    /\ taken' = <<heappop_item(queue), job_idx>>
    /\ wpc' = [wpc EXCEPT ![t] = "chk"]

\* Line 137: self._job_queue_cond.wait() gives the lock up and parks.
run_wait(t) ==
    /\ wpc' = [wpc EXCEPT ![t] = "waiting"]
    /\ UNCHANGED <<active_job, queue, taken>>

\* Line 132: while self.running.
run_while(t) ==
    /\ wpc[t] = "loop"
    /\ wpc' = [wpc EXCEPT ![t] = IF running THEN "acq" ELSE "exited"]
    /\ UNCHANGED <<sched, wjob, queue, active_job, job_idx, ppc, pact,
                   submitted, stopCalls, hist>>

\* Lines 134-142, entered from the top: acquire, test the queue, wait or pop.
run_take(t) ==
    /\ wpc[t] = "acq"
    /\ IF Len(queue) <= 0 THEN run_wait(t) ELSE run_pop(t)
    /\ UNCHANGED <<sched, wjob, job_idx, ppc, pact, submitted, stopCalls,
                   doCount>>

\* Lines 137-142, after a notify: wait() returns with the lock held, then
\* "if not self.running: return", else the inner while tests the queue again.
run_woken(t) ==
    /\ wpc[t] = "woken"
    /\ IF ~running
       THEN /\ wpc' = [wpc EXCEPT ![t] = "exited"]
            /\ UNCHANGED <<active_job, queue, taken>>
       ELSE IF Len(queue) <= 0 THEN run_wait(t) ELSE run_pop(t)
    /\ UNCHANGED <<sched, wjob, job_idx, ppc, pact, submitted, stopCalls,
                   doCount>>

\* Lines 144-155: "if not self.running: return", the assertion that
\* _active_job is set, then self._active_job.do() is entered.
run_do(t) ==
    /\ wpc[t] = "chk"
    /\ IF ~running \/ active_job = None
       THEN /\ wpc' = [wpc EXCEPT ![t] = "exited"]
            /\ UNCHANGED <<wjob, doCount, stopCalls>>
       ELSE /\ wpc' = [wpc EXCEPT ![t] = "do"]
            /\ wjob' = [wjob EXCEPT ![t] = active_job]
            /\ doCount' = [doCount EXCEPT ![active_job] = @ + 1]
            /\ stopCalls' = {c \in stopCalls : c[1] # active_job}
    /\ UNCHANGED <<sched, queue, active_job, job_idx, ppc, pact, submitted,
                   taken>>

\* do() returns (by itself, or because stop() asked it to).
do_return(t) ==
    /\ wpc[t] = "do"
    /\ wpc' = [wpc EXCEPT ![t] = "clear"]
    /\ wjob' = [wjob EXCEPT ![t] = None]
    /\ UNCHANGED <<sched, queue, active_job, job_idx, ppc, pact, submitted,
                   stopCalls, hist>>

\* Line 156: do() raises an Exception, which "except Exception" catches.
do_raise(t) ==
    /\ wpc[t] = "do"
    /\ wpc' = [wpc EXCEPT ![t] = "caught"]
    /\ wjob' = [wjob EXCEPT ![t] = None]
    /\ UNCHANGED <<sched, queue, active_job, job_idx, ppc, pact, submitted,
                   stopCalls, hist>>

\* A handler that does not return to the loop.
run_caught_dies(t) ==
    /\ wpc[t] = "caught"
    /\ wpc' = [wpc EXCEPT ![t] = "exited"]
    /\ UNCHANGED <<sched, wjob, queue, active_job, job_idx, ppc, pact,
                   submitted, stopCalls, hist>>

\* Lines 157-173: the handler logs the exception and the traceback of the
\* schedule() call, and falls through to line 174.
run_caught(t) ==
    /\ wpc[t] = "caught"
    /\ wpc' = [wpc EXCEPT ![t] = "clear"]
    /\ UNCHANGED <<sched, wjob, queue, active_job, job_idx, ppc, pact,
                   submitted, stopCalls, hist>>

\* Lines 187-192: under the lock, self._active_job = None and notify_all().
run_clear(t) ==
    /\ wpc[t] = "clear"
    /\ active_job' = None
    /\ taken' = <<>>
    /\ wpc' = [notified_w(wpc) EXCEPT ![t] = "chk2"]
    /\ ppc' = notified_p(ppc)
    /\ UNCHANGED <<sched, wjob, queue, job_idx, pact, submitted, stopCalls,
                   doCount>>

\* Line 194: if not self.running: return.
run_check(t) ==
    /\ wpc[t] = "chk2"
    /\ wpc' = [wpc EXCEPT ![t] = IF running THEN "loop" ELSE "exited"]
    /\ UNCHANGED <<sched, wjob, queue, active_job, job_idx, ppc, pact,
                   submitted, stopCalls, hist>>

Worker(t) ==
    \/ run_while(t)
    \/ run_take(t)
    \/ run_woken(t)
    \/ run_do(t)
    \/ run_caught(t)
    \/ run_clear(t)
    \/ run_check(t)

-----------------------------------------------------------------------------
(* JobScheduler._stop_active_job, called with the lock held.               *)

\* A stop() called whatever can_stop says.
stop_always(job) == TRUE

\* Line 200: active_job.stop() is called only if active_job.can_stop.
stop_invoked(job) == can_stop(job)

\* Lines 200-206 for the active job: stop(will_resume), or the warning.
stop_request(will_resume) ==
    stopCalls' = IF stop_invoked(active_job)
                 THEN stopCalls \cup {<<active_job, will_resume>>}
                 ELSE stopCalls

\* Line 208: while active_job == self._active_job (Job.__eq__ is identity).
still_active(p) == pact[p] = active_job

-----------------------------------------------------------------------------
(* JobScheduler.schedule(job), called by producer p.                       *)

\* A preemption that does not push the job back.
requeue_dropped(q, active, idx) == q

\* A re-queue that reuses the number issued last.
requeue_stale(q, active, idx) ==
    heappush(q, <<-1 * priority(active), idx - 1, active>>)

\* Lines 238-240: the preempted job is pushed back with a new idx.
requeue(q, active, idx) == heappush(q, <<-1 * priority(active), idx, active>>)

\* A preemption of jobs of the same priority too.
preempts_or_equal(job) ==
    active_job # None /\ priority(active_job) <= priority(job)

\* Line 236: a job with a lower priority is running.
preempts(job) == active_job # None /\ priority(active_job) < priority(job)

\* Lines 221-243 up to the first wait() of _stop_active_job, or to the end.
schedule(p, job) ==
    /\ ppc[p] = "idle"
    /\ job \notin submitted
    /\ submitted' = submitted \cup {job}
    /\ queue' = heappush(queue, <<-1 * priority(job), job_idx, job>>)
    /\ job_idx' = job_idx + 1
    /\ IF preempts(job)
       THEN /\ stop_request(TRUE)
            /\ pact' = [pact EXCEPT ![p] = active_job]
            /\ ppc' = [ppc EXCEPT ![p] = "s_wait"]
            /\ wpc' = wpc
       ELSE /\ ppc' = notified_p(ppc)
            /\ wpc' = notified_w(wpc)
            /\ UNCHANGED <<pact, stopCalls>>
    /\ UNCHANGED <<sched, wjob, active_job, hist>>

\* Lines 208-243 after a notify: wait() returns with the lock held; wait
\* again while the job is still active, else push it back and notify.
schedule_woken(p) ==
    /\ ppc[p] = "s_woken"
    /\ IF still_active(p)
       THEN /\ ppc' = [ppc EXCEPT ![p] = "s_wait"]
            /\ UNCHANGED <<queue, job_idx, pact, wpc>>
       ELSE /\ queue' = requeue(queue, pact[p], job_idx)
            /\ job_idx' = job_idx + 1
            /\ pact' = [pact EXCEPT ![p] = None]
            /\ ppc' = [notified_p(ppc) EXCEPT ![p] = "idle"]
            /\ wpc' = notified_w(wpc)
    /\ UNCHANGED <<sched, wjob, active_job, submitted, stopCalls, hist>>

-----------------------------------------------------------------------------
(* JobScheduler._cancel_matching_jobs, cancel and cancel_all.              *)

\* Lines 249-251: "for job in self._job_queue" walks the list by position
\* while remove() shortens it: i is the iterator's position (from 1).
RECURSIVE cancel_loop(_, _, _)
cancel_loop(q, i, fac) ==
    IF i > Len(q) THEN q
    ELSE IF factory(q[i][3]) = fac
         THEN cancel_loop(list_remove(q, i), i + 1, fac)
         ELSE cancel_loop(q, i + 1, fac)

\* Lines 262-266: the logging call names "job", which cancel() does not
\* define: NameError, before _cancel_matching_jobs is reached.
cancel(p, target_job) ==
    /\ ppc[p] = "idle"
    /\ ppc' = [ppc EXCEPT ![p] = "NameError"]
    /\ UNCHANGED <<sched, wpc, wjob, queue, active_job, job_idx, pact,
                   submitted, stopCalls, hist>>

\* Lines 268-272 and 245-260 up to the wait() of _stop_active_job, or to
\* the end.  No notify_all() here.
cancel_all(p, fac) ==
    /\ ppc[p] = "idle"
    /\ queue' = cancel_loop(queue, 1, fac)
    /\ IF active_job # None /\ factory(active_job) = fac
       THEN /\ stop_request(FALSE)
            /\ pact' = [pact EXCEPT ![p] = active_job]
            /\ ppc' = [ppc EXCEPT ![p] = "c_wait"]
       ELSE UNCHANGED <<pact, ppc, stopCalls>>
    /\ UNCHANGED <<sched, wpc, wjob, active_job, job_idx, submitted, hist>>

\* Lines 208-219 and 259-260 after a notify.
cancel_woken(p) ==
    /\ ppc[p] = "c_woken"
    /\ IF still_active(p)
       THEN /\ ppc' = [ppc EXCEPT ![p] = "c_wait"]
            /\ pact' = pact
       ELSE /\ ppc' = [ppc EXCEPT ![p] = "idle"]
            /\ pact' = [pact EXCEPT ![p] = None]
    /\ UNCHANGED <<sched, wpc, wjob, queue, active_job, job_idx, submitted,
                   stopCalls, hist>>

-----------------------------------------------------------------------------
(* JobScheduler.start and JobScheduler.stop, called by producer p.         *)

\* A start() without its assertions.
start_unchecked == TRUE

\* Lines 122-123: assert(not self.running); assert(self._thread is None).
start_allowed == ~running /\ thread = 0

\* Lines 120-127.
start(p) ==
    /\ ppc[p] = "idle"
    /\ nstarted < MaxStarts
    /\ IF start_allowed
       THEN /\ nstarted' = nstarted + 1
            /\ thread' = nstarted + 1
            /\ running' = TRUE
            /\ wpc' = [wpc EXCEPT ![nstarted + 1] = "loop"]
            /\ UNCHANGED <<objs, ppc>>
       ELSE /\ ppc' = [ppc EXCEPT ![p] = "AssertionError"]
            /\ UNCHANGED <<sched, wpc>>
    /\ UNCHANGED <<wjob, queue, active_job, job_idx, pact, submitted,
                   stopCalls, hist>>

\* Lines 275-279: the two assertions, then self.running = False.
stop(p) ==
    /\ ppc[p] = "idle"
    /\ IF running /\ thread # 0
       THEN /\ running' = FALSE
            /\ ppc' = [ppc EXCEPT ![p] = "st_acq"]
       ELSE /\ ppc' = [ppc EXCEPT ![p] = "AssertionError"]
            /\ running' = running
    /\ UNCHANGED <<objs, thread, nstarted, wpc, wjob, queue, active_job,
                   job_idx, pact, submitted, stopCalls, hist>>

\* Lines 281-285: notify_all() under the lock.
stop_notify(p) ==
    /\ ppc[p] = "st_acq"
    /\ ppc' = [notified_p(ppc) EXCEPT ![p] = "st_join"]
    /\ wpc' = notified_w(wpc)
    /\ UNCHANGED <<sched, wjob, queue, active_job, job_idx, pact, submitted,
                   stopCalls, hist>>

\* A stop() that does not wait for the worker thread.
stop_join_nowait(p) ==
    /\ ppc[p] = "st_join"
    /\ thread # 0
    /\ thread' = 0
    /\ ppc' = [ppc EXCEPT ![p] = "idle"]
    /\ UNCHANGED <<objs, running, nstarted, wpc, wjob, queue, active_job,
                   job_idx, pact, submitted, stopCalls, hist>>

\* Lines 287-288: self._thread.join() returns once the worker has exited.
stop_join(p) ==
    /\ ppc[p] = "st_join"
    /\ thread # 0
    /\ wpc[thread] = "exited"
    /\ thread' = 0
    /\ ppc' = [ppc EXCEPT ![p] = "idle"]
    /\ UNCHANGED <<objs, running, nstarted, wpc, wjob, queue, active_job,
                   job_idx, pact, submitted, stopCalls, hist>>

\* The exception of a failed call leaves the call and reaches the caller.
propagate(p) ==
    /\ ppc[p] \in {"NameError", "AssertionError"}
    /\ ppc' = [ppc EXCEPT ![p] = "idle"]
    /\ UNCHANGED <<sched, wpc, wjob, queue, active_job, job_idx, pact,
                   submitted, stopCalls, hist>>

-----------------------------------------------------------------------------
\* A call a producer makes, and the steps that finish a call under way.
Call(p) ==
    \/ \E j \in Jobs : schedule(p, j)
    \/ \E j \in Jobs : cancel(p, j)
    \/ \E f \in Factories : cancel_all(p, f)
    \/ start(p)
    \/ stop(p)

Resume(p) ==
    \/ schedule_woken(p)
    \/ cancel_woken(p)
    \/ stop_notify(p)
    \/ stop_join(p)
    \/ propagate(p)

Body(t) == do_return(t) \/ do_raise(t)

Next ==
    \/ \E p \in Producers : Call(p) \/ Resume(p)
    \/ \E t \in Threads : Worker(t) \/ Body(t)

Spec == Init /\ [][Next]_vars

\* The scheduler with callers that only start it and schedule jobs: no
\* cancel, no cancel_all, no stop.
SchedNext ==
    \/ \E p \in Producers :
          \/ \E j \in Jobs : schedule(p, j)
          \/ schedule_woken(p)
          \/ start(p)
          \/ propagate(p)
    \/ \E t \in Threads : Worker(t) \/ Body(t)

SchedSpec == Init /\ [][SchedNext]_vars

\* The same, with threads that keep running: the worker goes on whenever it
\* can, every do() ends, and a producer woken in schedule() goes on.
FairSched ==
    /\ SchedSpec
    /\ \A t \in Threads : WF_vars(Worker(t)) /\ WF_vars(Body(t))
    /\ \A p \in Producers : WF_vars(schedule_woken(p))

-----------------------------------------------------------------------------
(* PriorityQueue and PriorityQueueIter (util/__init__.py).                 *)

\* Lines 149-157: add(priority, element).
pq_add(prio, element) ==
    /\ last_idx < MaxAdds
    /\ elements' = heappush(elements, <<-1 * prio, last_idx, element>>)
    /\ last_idx' = last_idx + 1
    /\ UNCHANGED scheduler

\* Lines 160-164: the position (from 1) of the first tuple holding target,
\* 0 if there is none.
pq_find(target) ==
    IF \E i \in 1 .. Len(elements) : elements[i][3] = target
    THEN CHOOSE i \in 1 .. Len(elements) :
            /\ elements[i][3] = target
            /\ \A k \in 1 .. i - 1 : elements[k][3] # target
    ELSE 0

\* A remove that drops every tuple holding target.
pq_remove_every(target) ==
    /\ elements' = heapify(SelectSeq(elements, LAMBDA e : e[3] # target))
    /\ UNCHANGED <<scheduler, last_idx>>

\* Lines 159-168: remove(target); ValueError leaves the queue as it was.
pq_remove(target) ==
    /\ IF pq_find(target) = 0
       THEN elements' = elements
       ELSE elements' = heapify(list_remove(elements, pq_find(target)))
    /\ UNCHANGED <<scheduler, last_idx>>

\* Lines 146-147: purge() empties the list and leaves __last_idx alone.
pq_purge ==
    /\ elements' = <<>>
    /\ UNCHANGED <<scheduler, last_idx>>

\* Lines 121-137 and 170-171: the tuples in the order in which iteration
\* pops them from its copy of the list; next() returns the third field.
RECURSIVE pq_popped(_)
pq_popped(heap) ==
    IF heap = <<>> THEN <<>>
    ELSE <<heappop_item(heap)>> \o pq_popped(heappop_rest(heap))

pq_iter(heap) == [i \in 1 .. Len(heap) |-> pq_popped(heap)[i][3]]

PQNext ==
    \/ \E prio \in PQPriorities, element \in PQElements : pq_add(prio, element)
    \/ \E target \in PQElements : pq_remove(target)
    \/ pq_purge

\* A PriorityQueue under any sequence of add, remove and purge.
PQSpec == Init /\ [][PQNext]_vars

-----------------------------------------------------------------------------
(* The timing of a do() in _run (lines 153-185), with an integer clock.    *)

\* Lines 176-185: diff = start - stop, then logger.debug or logger.warning.
log_level(job_can_stop, start_time, stop_time) ==
    LET diff == start_time - stop_time
    IN IF job_can_stop \/ diff <= MAX_TIME_FOR_UNSTOPPABLE_JOB
       THEN "debug" ELSE "warning"

\* Line 153: start = time.time(), for a job that can or cannot be stopped.
time_start(job_can_stop, now) ==
    /\ timed.logged \in {"none", "debug", "warning"}
    /\ timed' = [can_stop |-> job_can_stop, start |-> now, stop |-> now,
                 logged |-> "do"]
    /\ UNCHANGED <<scheduler_state, elements, last_idx, waiter>>

\* Lines 154-174: do() returns or raises, then stop = time.time(); the clock
\* does not go back.
time_stop(now) ==
    /\ timed.logged = "do"
    /\ now >= timed.start
    /\ timed' = [timed EXCEPT !.stop = now, !.logged = "done"]
    /\ UNCHANGED <<scheduler_state, elements, last_idx, waiter>>

\* Lines 176-185.
time_log ==
    /\ timed.logged = "done"
    /\ timed' = [timed EXCEPT
                    !.logged = log_level(timed.can_stop, timed.start, timed.stop)]
    /\ UNCHANGED <<scheduler_state, elements, last_idx, waiter>>

TimeNext ==
    \/ \E c \in BOOLEAN, now \in 0 .. MaxTime : time_start(c, now)
    \/ \E now \in 0 .. MaxTime : time_stop(now)
    \/ time_log

\* The worker timing one do() after the other.
TimeSpec == Init /\ [][TimeNext]_vars

-----------------------------------------------------------------------------
(* Job._wait and Job._stop_wait (lines 65-84), with an integer clock.      *)
(* Condition.wait(timeout) returns at the instant it is notified or its    *)
(* timeout expires.                                                        *)

\* A wait that forgets the time already waited.
wait_left_unchanged(wait_time, start_time, stop_time) == wait_time

\* Line 77: self._wait_time -= (stop - start).
wait_left(wait_time, start_time, stop_time) ==
    wait_time - (stop_time - start_time)

\* Lines 67-72: _wait(wait_time) up to the wait() on the condition.
wait_call(d) ==
    /\ waiter.pc = "idle"
    /\ waiter' = IF waiter.is_set
                 THEN [waiter EXCEPT !.start = waiter.now, !.pc = "waiting"]
                 ELSE [waiter EXCEPT !.is_set = TRUE, !.wait_time = d,
                                     !.asked = d, !.waited = 0,
                                     !.start = waiter.now, !.pc = "waiting"]
    /\ UNCHANGED <<scheduler_state, elements, last_idx, timed>>

\* The return from wait() at time waiter.now, and lines 74-77.
wait_return ==
    [waiter EXCEPT
        !.wait_time = wait_left(waiter.wait_time, waiter.start, waiter.now),
        !.waited = waiter.waited + (waiter.now - waiter.start),
        !.pc = "idle"]

\* Line 72: the timeout of wait() expires.
wait_timeout ==
    /\ waiter.pc = "waiting"
    /\ waiter.now - waiter.start >= waiter.wait_time
    /\ waiter' = wait_return
    /\ UNCHANGED <<scheduler_state, elements, last_idx, timed>>

\* Lines 79-84: _stop_wait() from another thread; a thread in wait() is
\* woken, otherwise nothing happens.
stop_wait ==
    /\ waiter' = IF waiter.pc = "waiting" THEN wait_return ELSE waiter
    /\ UNCHANGED <<scheduler_state, elements, last_idx, timed>>

\* Time passes, but not beyond the timeout of a wait() under way.
wait_tick ==
    /\ waiter.now < MaxTime
    /\ waiter.pc = "waiting" => waiter.now - waiter.start < waiter.wait_time
    /\ waiter' = [waiter EXCEPT !.now = waiter.now + 1]
    /\ UNCHANGED <<scheduler_state, elements, last_idx, timed>>

WaitNext ==
    \/ \E d \in 1 .. MaxTime : wait_call(d)
    \/ wait_timeout
    \/ stop_wait
    \/ wait_tick

\* One job waiting, stopped and resumed any number of times.
WaitSpec == Init /\ [][WaitNext]_vars

-----------------------------------------------------------------------------
(* Properties.                                                             *)

InQueue(j) == \E i \in 1 .. Len(queue) : queue[i][3] = j

\* C1: at most one do() is in progress at any instant, and it is the do() of
\* the job recorded in active_job.
C1_SingleActive ==
    /\ Cardinality({t \in Threads : wpc[t] = "do"}) <= 1
    /\ \A t \in Threads : wpc[t] = "do" => wjob[t] = active_job

\* A do() in progress while one producer is parked in a preemption and jobs
\* are pending.
C1_Witness ==
    /\ \E t \in Threads : wpc[t] = "do"
    /\ \E p \in Producers : ppc[p] = "s_wait"
    /\ Len(queue) > 0

\* Tuple e goes before tuple q: higher priority, or the same priority and
\* submitted earlier.
goes_before(e, q) ==
    \/ priority(e[3]) > priority(q[3])
    \/ priority(e[3]) = priority(q[3]) /\ e[2] < q[2]

\* C2: without cancel and stop, whenever a do() is in progress it is the
\* do() of the job the worker took, and every job that was already pending
\* when the worker took it has a lower priority, or the same priority and a
\* later submission.
C2_PriorityOrder ==
    \A t \in Threads :
        wpc[t] = "do" =>
            /\ wjob[t] = taken[1][3]
            /\ \A i \in 1 .. Len(queue) :
                  queue[i][2] < taken[2] => goes_before(taken[1], queue[i])

\* A do() in progress with two jobs pending since before the worker took the
\* job, one of them of the same priority.
C2_Witness ==
    /\ \E t \in Threads : wpc[t] = "do"
    /\ Len(queue) >= 2
    /\ \A i \in 1 .. Len(queue) : queue[i][2] < taken[2]
    /\ \E i \in 1 .. Len(queue) : priority(queue[i][3]) = priority(taken[1][3])

\* C3: every time the worker takes a job from the queue, the job has the
\* highest priority of all pending jobs and, among those, the smallest
\* submission sequence.
C3_TakesBest ==
    [][\A t \in Threads :
          (wpc[t] \in {"acq", "woken"} /\ wpc'[t] = "chk") =>
              \A i \in 1 .. Len(queue) :
                  queue[i] # taken'[1] => goes_before(taken'[1], queue[i])]_vars

\* Executions of job j already owed: its tuples in the queue, and the one
\* the worker has taken and not yet started.
owed(j) ==
    Cardinality({i \in 1 .. Len(queue) : queue[i][3] = j})
    + (IF active_job = j /\ \E t \in Threads : wpc[t] = "chk" THEN 1 ELSE 0)

DoRange == 0 .. 2 * Cardinality(Jobs)

\* C4: when schedule() finds a stoppable job of strictly lower priority
\* active, stop(will_resume=True) is called on it, and (without cancel and
\* stop) while the caller waits to put the job back, one more do() of the job
\* than those already owed is eventually invoked.
C4_PreemptedRunsAgain ==
    /\ [][\A p \in Producers :
             (ppc[p] = "idle" /\ ppc'[p] = "s_wait" /\ can_stop(active_job))
                 => <<active_job, TRUE>> \in stopCalls']_vars
    /\ \A j \in Jobs : \A n \in DoRange :
          ((\E p \in Producers : ppc[p] \in {"s_wait", "s_woken"} /\ pact[p] = j)
              /\ can_stop(j) /\ doCount[j] + owed(j) = n)
          ~> (doCount[j] > n)

\* A stoppable job that was stopped to be resumed has been put back and its
\* do() invoked a second time.
C4_Witness ==
    \E j \in Jobs :
        /\ can_stop(j)
        /\ doCount[j] >= 2
        /\ \E t \in Threads : wpc[t] = "do" /\ wjob[t] = j

\* C5: stop() is never invoked on a job whose can_stop is false.
C5_NeverStopsUnstoppable == \A c \in stopCalls : can_stop(c[1])

\* A producer is inside _stop_active_job for a job that cannot stop, which
\* is still active.
C5_Witness ==
    \E p \in Producers :
        /\ ppc[p] \in {"s_wait", "c_wait"}
        /\ pact[p] = active_job
        /\ ~can_stop(pact[p])
        /\ \E t \in Threads : wpc[t] = "do"

\* C6: a job that cannot stop, submitted once, has its do() invoked once,
\* also when a job of higher priority is scheduled while it is active.
C6_RunsOnce == \A j \in Jobs : ~can_stop(j) => doCount[j] <= 1

\* C7: cancel(job) on a job that is pending and not active removes it from
\* the queue.
C7_CancelRemoves ==
    [][\A p \in Producers : \A j \in Jobs :
          (cancel(p, j) /\ InQueue(j) /\ active_job # j) => ~InQueue(j)']_vars

\* C8: cancel_all(factory) leaves no job of that factory in the queue.
C8_CancelAllRemovesAll ==
    [][\A p \in Producers : \A f \in Factories :
          cancel_all(p, f) =>
              \A i \in 1 .. Len(queue') : factory(queue'[i][3]) # f]_vars

\* C9: once the worker has caught an exception of do(), every job pending at
\* that time has (without cancel and stop) its do() invoked afterwards.
C9_RaiseIsolated ==
    \A j \in Jobs : \A n \in DoRange :
        ((\E t \in Threads : wpc[t] = "caught") /\ InQueue(j) /\ doCount[j] = n)
        ~> (doCount[j] > n)

\* The worker has caught an exception of do() while two jobs are pending.
C9_Witness ==
    /\ \E t \in Threads : wpc[t] = "caught"
    /\ Len(queue) >= 2

\* The steps the threads take by themselves, without a new call.
Progress ==
    \/ \E p \in Producers : Resume(p)
    \/ \E t \in Threads : Worker(t) \/ Body(t)

\* C10: a stop() call that is waiting in join() is never stuck: as long as
\* it has not returned, some thread can take a step.
C10_StopReturns ==
    \A p \in Producers : ppc[p] = "st_join" => ENABLED Progress

\* C11: while the scheduler is stopped (_thread is None: stop() has
\* returned, or start() was never called) no worker thread is alive, so no
\* do() is in progress and no step starts a do() or makes a pending job the
\* active one.
C11_StoppedRunsNothing ==
    /\ [](thread = 0 => \A t \in Threads : wpc[t] \in {"none", "exited"})
    /\ [][(thread = 0 /\ thread' = 0) =>
             (doCount' = doCount /\ active_job' = active_job)]_vars

\* stop() has returned and left a job pending that was never executed.
C11_Witness ==
    /\ thread = 0
    /\ nstarted >= 1
    /\ \A p \in Producers : ppc[p] = "idle"
    /\ \E j \in Jobs : InQueue(j) /\ doCount[j] = 0

\* The call of producer p fails with AssertionError and changes nothing of
\* the scheduler.
fails_unchanged(p) ==
    /\ ppc'[p] = "AssertionError"
    /\ UNCHANGED <<running, thread, wpc, queue, active_job>>

\* C12: start() on a running scheduler and stop() on a scheduler that is not
\* running both fail with AssertionError and leave running, the worker
\* thread, the queue and active_job as they were.
C12_MisuseAsserts ==
    [][\A p \in Producers :
          /\ (start(p) /\ running) => fails_unchanged(p)
          /\ (stop(p) /\ ~running) => fails_unchanged(p)]_vars

\* A producer holds the AssertionError of a refused call while the scheduler
\* runs with an active job and a pending one.
C12_Witness ==
    /\ running
    /\ thread # 0
    /\ active_job # None
    /\ Len(queue) > 0
    /\ \E p \in Producers : ppc[p] = "AssertionError"

\* C13: schedule(job) on a scheduler that was never started fails and does
\* not add the job to the queue.
C13_ScheduleNeedsStart ==
    [][\A p \in Producers, j \in Jobs :
          (schedule(p, j) /\ nstarted = 0) =>
              (ppc'[p] = "AssertionError" /\ queue' = queue)]_vars

\* C14: cancel(job) for a job that is neither pending nor active, and
\* cancel_all(factory) for a factory with no pending or active job, return
\* normally and leave the queue and active_job unchanged.
C14_CancelAbsentIsNoOp ==
    [][\A p \in Producers :
          /\ \A j \in Jobs :
                (cancel(p, j) /\ ~InQueue(j) /\ active_job # j) =>
                    (ppc'[p] = "idle" /\ queue' = queue
                                      /\ active_job' = active_job)
          /\ \A f \in Factories :
                ( /\ cancel_all(p, f)
                  /\ \A j \in Jobs : factory(j) = f =>
                                        (~InQueue(j) /\ active_job # j) ) =>
                    (ppc'[p] = "idle" /\ queue' = queue
                                      /\ active_job' = active_job)]_vars

\* C15: in every reachable state the job held in active_job has no entry in
\* the pending queue (each job is submitted once; producers call schedule
\* concurrently).
C15_ActiveNotQueued ==
    active_job # None => ~InQueue(active_job)

\* C16: after any sequence of add, remove and purge, iterating the
\* PriorityQueue yields every element it holds exactly once, in descending
\* priority order and, among equal priorities, in insertion order.
C16_IterOrdered ==
    LET out == pq_popped(elements)
    IN /\ Len(out) = Len(elements)
       /\ \A i \in 1 .. Len(elements) :
             Cardinality({k \in 1 .. Len(out) : out[k] = elements[i]}) = 1
       /\ \A i, k \in 1 .. Len(out) :
             i < k => \/ -out[i][1] > -out[k][1]
                      \/ (out[i][1] = out[k][1] /\ out[i][2] < out[k][2])

\* Three elements are left after a remove() between two that stay (the
\* second add is gone), two of them of one priority, and the list is not in
\* iteration order.
C16_Witness ==
    /\ Len(elements) >= 3
    /\ \E i, k \in 1 .. Len(elements) :
          /\ elements[i][2] = 0
          /\ elements[k][2] = 2
          /\ elements[i][1] = elements[k][1]
    /\ \A i \in 1 .. Len(elements) : elements[i][2] # 1
    /\ pq_popped(elements) # elements

\* How many entries of list q hold job k.
QueueCount(q, k) == Cardinality({i \in 1 .. Len(q) : q[i][3] = k})

\* C17: schedule(job) while the active job's priority is greater than or
\* equal to the job's only adds the job to the queue and notifies: no stop()
\* is invoked, the caller does not wait, the active job is not re-queued and
\* active_job stays as it is.
C17_NoPreemptionFrame ==
    [][\A p \in Producers, j \in Jobs :
          ( /\ schedule(p, j)
            /\ active_job # None
            /\ priority(active_job) >= priority(j) ) =>
              /\ ppc'[p] = "idle"
              /\ stopCalls' = stopCalls
              /\ active_job' = active_job
              /\ wpc' = notified_w(wpc)
              /\ \A k \in Jobs :
                    QueueCount(queue', k) =
                        QueueCount(queue, k) + (IF k = j THEN 1 ELSE 0)]_vars

\* A do() in progress, with a pending job of the same or a lower priority
\* that was submitted after the active job was taken: no stop() was called
\* and no producer is waiting.
C17_Witness ==
    /\ active_job # None
    /\ \E t \in Threads : wpc[t] = "do" /\ wjob[t] = active_job
    /\ stopCalls = {}
    /\ \A p \in Producers : ppc[p] = "idle"
    /\ \E i \in 1 .. Len(queue) :
          /\ queue[i][2] >= taken[2]
          /\ doCount[queue[i][3]] = 0
          /\ priority(queue[i][3]) <= priority(active_job)

\* C18: under fair scheduling (every do() ends, the worker and a woken
\* producer go on) every call of schedule() on a started scheduler returns:
\* a producer inside schedule() is there only while it waits for the job it
\* preempts to vacate active_job, also when another producer preempts the
\* same job.
C18_ScheduleReturns ==
    /\ \A p \in Producers :
          (ppc[p] \in {"s_wait", "s_woken"}) ~> (ppc[p] = "idle")
    /\ [](\A p \in Producers :
             ppc[p] = "s_wait" => (pact[p] # None /\ pact[p] = active_job))

\* Two producers are parked in schedule(), both waiting for the same active
\* job to vacate.
C18_Witness ==
    \E p, q \in Producers :
        /\ p # q
        /\ ppc[p] = "s_wait"
        /\ ppc[q] = "s_wait"
        /\ pact[p] = active_job
        /\ pact[q] = active_job

\* Producer p, woken in schedule(), finds the preempted job gone from
\* active_job and pushes it back (lines 238-240).
requeues(p) == schedule_woken(p) /\ ~still_active(p)

\* C19 as stated: when schedule re-queues a preempted job no new sequence
\* number is assigned; the entry carries a number issued earlier.
C19_KeepsOriginalSeq ==
    [][\A p \in Producers :
          requeues(p) =>
              /\ job_idx' = job_idx
              /\ \A i \in 1 .. Len(queue') : queue'[i][2] < job_idx]_vars

\* C19 amended: when schedule re-queues a preempted job the entry gets the
\* next number of the generator, greater than the number of every entry
\* pending at that moment, so the job goes behind the pending jobs of its
\* priority.
C19_RequeueNewSeq ==
    [][\A p \in Producers :
          requeues(p) =>
              /\ job_idx' = job_idx + 1
              /\ QueueCount(queue', pact[p]) = QueueCount(queue, pact[p]) + 1
              /\ \E i \in 1 .. Len(queue') :
                    queue'[i] = <<-1 * priority(pact[p]), job_idx, pact[p]>>
              /\ \A k \in 1 .. Len(queue) : queue[k][2] < job_idx]_vars

\* A job whose do() was entered before is pending again, under the number
\* issued last, and every producer has returned.
C19_Witness ==
    /\ \A p \in Producers : ppc[p] = "idle"
    /\ \E i \in 1 .. Len(queue) :
          /\ queue[i][2] = job_idx - 1
          /\ doCount[queue[i][3]] >= 1

\* C20: once the worker has logged the duration of a do(), the job was
\* classified over budget (warning) exactly if it cannot be stopped and its
\* do() took longer than MAX_TIME_FOR_UNSTOPPABLE_JOB; a job within the
\* budget or with can_stop true was classified normal (debug).
C20_OverBudgetWarned ==
    timed.logged \in {"debug", "warning"} =>
        (timed.logged = "warning" <=>
            ( /\ ~timed.can_stop
              /\ timed.stop - timed.start > MAX_TIME_FOR_UNSTOPPABLE_JOB ))

\* C21: the interruptible wait is resumable.  Once _wait(d) was called, the
\* time _wait_time still to wait is d minus the time already spent in
\* wait(): a wait() woken early after e leaves d - e, the next _wait blocks
\* for at most that remainder, and when nothing is left the time waited in
\* total is d.
C21_WaitResumable ==
    waiter.is_set =>
        /\ waiter.wait_time = waiter.asked - waiter.waited
        /\ waiter.wait_time >= 0
        /\ waiter.pc = "waiting" =>
              waiter.now - waiter.start <= waiter.wait_time
        /\ (waiter.pc = "idle" /\ waiter.wait_time = 0) =>
              waiter.waited = waiter.asked

\* The wait was cut short at least once and resumed: the last wait() took
\* some time, less than the duration asked for, and with it the job has
\* waited that duration in total.
C21_Witness ==
    /\ waiter.is_set
    /\ waiter.pc = "idle"
    /\ waiter.wait_time = 0
    /\ waiter.asked >= 3
    /\ waiter.waited = waiter.asked
    /\ waiter.now - waiter.start > 0
    /\ waiter.now - waiter.start < waiter.asked

\* The tuples of list q, as a set (the idx field makes them distinct).
Entries(q) == {q[i] : i \in 1 .. Len(q)}

\* C22: remove(target) on a queue that holds target removes exactly one
\* entry, one whose element is target, leaves every other entry in the
\* queue, and the entries left are iterated by descending priority and then
\* in insertion order.
C22_RemoveOne ==
    [][\A target \in PQElements :
          (pq_remove(target) /\ pq_find(target) # 0) =>
              /\ Len(elements') = Len(elements) - 1
              /\ \E e \in Entries(elements) :
                    /\ e[3] = target
                    /\ Entries(elements') = Entries(elements) \ {e}
              /\ LET out == pq_popped(elements')
                 IN /\ Entries(out) = Entries(elements')
                    /\ \A i, k \in 1 .. Len(out) :
                          i < k => cmp_lt(out[i], out[k])]_vars

\* Two entries holding the same element are left, the first and the third
\* added, of different priorities: the second was removed.
C22_Witness ==
    /\ Len(elements) = 2
    /\ elements[1][3] = elements[2][3]
    /\ elements[1][1] # elements[2][1]
    /\ {elements[1][2], elements[2][2]} = {0, 2}

\* Some producer is still inside the cancelling call that waits for job j.
cancelling(j) ==
    \E p \in Producers : ppc[p] \in {"c_wait", "c_woken"} /\ pact[p] = j

\* C23: a job that was active when a cancelling call requested it to stop
\* with will_resume = False is discarded: once the cancelling call has
\* returned the job is not in the pending queue (so its do() is not invoked
\* again), also when a schedule() call of another producer is preempting the
\* same job.
C23_CancelledDiscarded ==
    \A j \in Jobs :
        (<<j, FALSE>> \in stopCalls /\ ~cancelling(j)) => ~InQueue(j)

\* C24: whenever the worker thread has exited, active_job is None: no job is
\* left recorded as active that no thread is executing.
C24_ExitLeavesNoActive ==
    (\A t \in Threads : wpc[t] \in {"none", "exited"}) => active_job = None

====
